---- MODULE Spec2Model ----
(***************************************************************************)
(* Ground-station route-following engine of yin-ming/uav2025.              *)
(*                                                                         *)
(* The model follows src/ground-station/src/utils/uavSimulation.js         *)
(* (updateUAVState and its geodesy helpers) and the operator handlers and  *)
(* the 1 Hz simulation loop of src/ground-station/src/App.js.              *)
(*                                                                         *)
(* Units.  All vehicles and waypoints lie on one meridian, so a position   *)
(* is one integer: latitude in units of 1/1,110,000 degree (one "nominal   *)
(* decimetre": calculateNewPosition converts metres to degrees with        *)
(* 111,000 m per degree).  calculateDistance is the haversine distance,    *)
(* which on a meridian is R * |dLat| = 111,194.93 m per degree; it is kept *)
(* in millimetres.  Speeds are in dm/s, altitudes in metres, the battery   *)
(* in hundredths of a percent, target speeds in km/h.                      *)
(***************************************************************************)
EXTENDS Integers, Sequences, FiniteSets, TLC

VARIABLES
  uavs,            \* App.js useState uavs: id -> vehicle record
  searchAreas,     \* App.js useState searchAreas
  searchAreasRef,  \* App.js useRef searchAreasRef.current, read by the loop
  selectedUAV,     \* App.js useState selectedUAV: <<>> or <<snapshot>>
  isDrawing,       \* App.js useState isDrawing
  isUpdatingRoute, \* App.js useState isUpdatingRoute
  drawingPath,     \* App.js useState drawingPath
  pendingStart,    \* setTimeout(handleStartSearch, 100) calls not yet fired
  nextAreaId,      \* Date.now() at the next handleDefineSearchArea
  ticks,           \* simulation ticks so far
  tickBudget,      \* simulation ticks the run explores
  setpointChanges, \* operator setpoint changes so far
  appendedSinceTick, \* observer: waypoints appended to a route since the last tick
  replay           \* App.js 44-55: the flight-history replay state

vars == <<uavs, searchAreas, searchAreasRef, selectedUAV, isDrawing,
          isUpdatingRoute, drawingPath, pendingStart, nextAreaId, ticks,
          tickBudget, setpointChanges, appendedSinceTick, replay>>

(***************************************************************************)
(* Bounds of the model.                                                    *)
(***************************************************************************)
MaxTicks == 7
FleetTicks == 3
MaxAreas == 1
MaxRouteLen == 3
MaxSetpointChanges == 1
WarmUp == 98
StreamTicks == 4
MaxTelemetry == 3
InputTicks == 3
LiveBattery == 3
EventTicks == 4
MaxReplayLen == 4
PixelParts == 4
BarWidth == 24

\* Map clicks the operator makes (positions on the meridian, dm).
WaypointChoices == {111, 400}
\* Slider values the operator picks (km/h within 20..70, metres within 40..120).
SpeedChoices == {36, 54}
AltitudeChoices == {40, 44}
\* The mock vehicle when the run starts: as registered, or with the sliders
\* at 36 km/h and 40 m and the battery nearly drained by long operation.
InitSetups ==
  { [battery |-> 10000, targetSpeed |-> 50, targetAltitude |-> 80],
    [battery |-> 15, targetSpeed |-> 36, targetAltitude |-> 40] }
\* What the second registered vehicle is: a real one, or a mock that is offline.
SecondKinds == {"real", "notOnline", "statusOffline"}

(***************************************************************************)
(* Program constants.                                                      *)
(***************************************************************************)
Undefined == -1
ArrivalThreshold == 20000
FlightPathCap == 100
AltitudeHistoryCap == 8
SampleEvery == 5
ClimbRate == 2
DefaultTargetSpeed == 50
DefaultTargetAltitude == 80
FallbackSpeed == 150
MinCoverageRadius == 250
SearchDrain == 10
ReturnDrain == 8
IdleDrain == 1
FullBattery == 10000
SecondOffset == 222

Abs(x) == IF x < 0 THEN -x ELSE x
Max(a, b) == IF a >= b THEN a ELSE b

\* arr.slice(-n) after a push: the last n elements.
SliceLast(s, n) == IF Len(s) > n THEN SubSeq(s, Len(s) - n + 1, Len(s)) ELSE s

(***************************************************************************)
(* Geodesy (uavSimulation.js 6-56), restricted to one meridian.            *)
(***************************************************************************)
\* Haversine distance in mm: R * |dLat|, R * pi / 180 = 111,194.93 m/degree.
calculateDistance(pos1, pos2) == (Abs(pos2 - pos1) * 111195) \div 1110

\* atan2(0, x): 0 (north) for x >= 0, 180 (south) for x < 0.
calculateBearing(pos1, pos2) == IF pos2 >= pos1 THEN 0 ELSE 180

\* lat + speed * deltaTime / 111000 * cos(direction); cos(0) = 1, cos(180) = -1.
calculateNewPosition(currentPos, direction, speed, deltaTime) ==
  currentPos + (IF direction = 0 THEN 1 ELSE -1) * speed * deltaTime

\* altitude * 0.5 || 25, in dm.
getCoverageRadius(altitude) ==
  IF altitude * 5 # 0 THEN altitude * 5 ELSE MinCoverageRadius

\* (uav.targetSpeed || 50) / 3.6, in dm/s.
TargetSpeedMs(uav) ==
  ((IF uav.targetSpeed # 0 THEN uav.targetSpeed ELSE DefaultTargetSpeed) * 100) \div 36

\* Variant: the way home is flown at the search speed.
ReturnSpeedMs_Same(uav) == TargetSpeedMs(uav)

\* ((uav.targetSpeed || 50) / 3.6) * 1.5, in dm/s.
ReturnSpeedMs(uav) ==
  ((IF uav.targetSpeed # 0 THEN uav.targetSpeed ELSE DefaultTargetSpeed) * 1500) \div 360

\* uav.targetAltitude || 80
TargetAltitudeOf(uav) ==
  IF uav.targetAltitude # 0 THEN uav.targetAltitude ELSE DefaultTargetAltitude

(***************************************************************************)
(* updateUAVState (uavSimulation.js 138-349).  uav is the argument,        *)
(* u the copy being updated (updatedUAV).                                  *)
(***************************************************************************)
\* Variant: the first tick ramps the altitude like every other tick.
SearchingSetpoints_RampFirst(uav, deltaTime) ==
  LET targetSpeedMs == TargetSpeedMs(uav)
      targetAltitude == TargetAltitudeOf(uav)
      altitudeDifference == targetAltitude - uav.altitude
  IN [uav EXCEPT
        !.currentWaypointIndex = IF uav.currentWaypointIndex = Undefined THEN 0 ELSE uav.currentWaypointIndex,
        !.speed = targetSpeedMs,
        !.altitude =
          IF Abs(altitudeDifference) < ClimbRate * deltaTime
          THEN targetAltitude
          ELSE IF altitudeDifference > 0
               THEN uav.altitude + ClimbRate * deltaTime
               ELSE uav.altitude - ClimbRate * deltaTime]

\* Variant: after the first tick a vehicle that is moving keeps its speed.
SearchingSetpoints_KeepSpeed(uav, deltaTime) ==
  LET targetSpeedMs == TargetSpeedMs(uav)
      targetAltitude == TargetAltitudeOf(uav)
  IN IF uav.currentWaypointIndex = Undefined
     THEN [uav EXCEPT !.currentWaypointIndex = 0,
                      !.speed = targetSpeedMs,
                      !.altitude = targetAltitude]
     ELSE LET currentAltitude ==
                IF uav.altitude # 0 THEN uav.altitude ELSE targetAltitude
              altitudeDifference == targetAltitude - currentAltitude
          IN [uav EXCEPT
                !.speed = IF uav.speed # 0 THEN uav.speed ELSE targetSpeedMs,
                !.altitude =
                  IF Abs(altitudeDifference) < ClimbRate * deltaTime
                  THEN targetAltitude
                  ELSE IF altitudeDifference > 0
                       THEN currentAltitude + ClimbRate * deltaTime
                       ELSE currentAltitude - ClimbRate * deltaTime]

\* Lines 153-183: first-tick initialisation, else speed and altitude ramp.
SearchingSetpoints(uav, deltaTime) ==
  LET targetSpeedMs == TargetSpeedMs(uav)
      targetAltitude == TargetAltitudeOf(uav)
  IN IF uav.currentWaypointIndex = Undefined
     THEN [uav EXCEPT !.currentWaypointIndex = 0,
                      !.speed = targetSpeedMs,
                      !.altitude = targetAltitude]
     ELSE LET currentAltitude ==
                IF uav.altitude # 0 THEN uav.altitude ELSE targetAltitude
              altitudeDifference == targetAltitude - currentAltitude
          IN [uav EXCEPT
                !.speed = targetSpeedMs,
                !.altitude =
                  IF Abs(altitudeDifference) < ClimbRate * deltaTime
                  THEN targetAltitude
                  ELSE IF altitudeDifference > 0
                       THEN currentAltitude + ClimbRate * deltaTime
                       ELSE currentAltitude - ClimbRate * deltaTime]

\* Variant: the arrival tick also moves the vehicle on.
AdvanceOrMove_Both(uav, u, waypoints, deltaTime) ==
  LET targetWaypoint == waypoints[u.currentWaypointIndex + 1]
      distance == calculateDistance(uav.position, targetWaypoint)
      direction == calculateBearing(uav.position, targetWaypoint)
      moved == [u EXCEPT
                  !.direction = direction,
                  !.position = calculateNewPosition(
                      uav.position, direction,
                      IF u.speed # 0 THEN u.speed ELSE FallbackSpeed,
                      deltaTime)]
  IN IF distance < ArrivalThreshold
     THEN [moved EXCEPT !.currentWaypointIndex = u.currentWaypointIndex + 1]
     ELSE moved

\* Variant: a waypoint counts as reached only when the vehicle stands on it.
AdvanceOrMove_ExactArrival(uav, u, waypoints, deltaTime) ==
  LET targetWaypoint == waypoints[u.currentWaypointIndex + 1]
  IN IF uav.position = targetWaypoint
     THEN [u EXCEPT !.currentWaypointIndex = u.currentWaypointIndex + 1]
     ELSE LET direction == calculateBearing(uav.position, targetWaypoint)
          IN [u EXCEPT
                !.direction = direction,
                !.position = calculateNewPosition(
                    uav.position, direction,
                    IF u.speed # 0 THEN u.speed ELSE FallbackSpeed,
                    deltaTime)]

\* Variant: a vehicle past the end of its route still counts one up per tick.
AdvanceOrMove_PastEnd(uav, u, waypoints, deltaTime) ==
  [u EXCEPT !.currentWaypointIndex = u.currentWaypointIndex + 2]

\* Lines 200-218: arrive-and-advance, or move toward the current waypoint.
AdvanceOrMove(uav, u, waypoints, deltaTime) ==
  LET targetWaypoint == waypoints[u.currentWaypointIndex + 1]
      distance == calculateDistance(uav.position, targetWaypoint)
  IN IF distance < ArrivalThreshold
     THEN [u EXCEPT !.currentWaypointIndex = u.currentWaypointIndex + 1]
     ELSE LET direction == calculateBearing(uav.position, targetWaypoint)
          IN [u EXCEPT
                !.direction = direction,
                !.position = calculateNewPosition(
                    uav.position, direction,
                    IF u.speed # 0 THEN u.speed ELSE FallbackSpeed,
                    deltaTime)]

\* Lines 220-224 and 312-316: append to the flight path, keep the last 100.
AppendFlightPath(uav, u) ==
  [u EXCEPT !.flightPath = SliceLast(Append(uav.flightPath, u.position), FlightPathCap)]

\* Lines 228-232 and 319-323: !counter is true for undefined and for 0.
NextSampleCounter(counter) ==
  IF counter = Undefined \/ counter = 0 THEN 0 ELSE counter + 1

\* Lines 226-241 and 318-332: altitude history, sampled when counter % 5 = 0.
TrackAltitudeHistory(uav, u) ==
  LET counter == NextSampleCounter(uav.altitudeHistorySampleCounter)
  IN [u EXCEPT
        !.altitudeHistorySampleCounter = counter,
        !.altitudeHistory =
          IF counter % SampleEvery = 0
          THEN SliceLast(Append(uav.altitudeHistory, u.altitude), AltitudeHistoryCap)
          ELSE uav.altitudeHistory]

\* Lines 262-263: spacing = radius * 2 * 0.7 (mm for a radius in dm).
shouldAddCoveragePoint(coveragePoints, position, altitude) ==
  \/ coveragePoints = <<>>
  \/ calculateDistance(position, coveragePoints[Len(coveragePoints)].position)
       >= getCoverageRadius(altitude) * 140

\* Lines 243-272: coverage sample after the first waypoint.
\* Variant: coverage is sampled on the transit leg as well.
AddCoveragePoint_InTransit(u) ==
  IF shouldAddCoveragePoint(u.coveragePoints, u.position, u.altitude)
  THEN [u EXCEPT !.coveragePoints =
          Append(u.coveragePoints, [position |-> u.position, altitude |-> u.altitude])]
  ELSE u

AddCoveragePoint(u) ==
  IF u.currentWaypointIndex > 0
       /\ shouldAddCoveragePoint(u.coveragePoints, u.position, u.altitude)
  THEN [u EXCEPT !.coveragePoints =
          Append(u.coveragePoints, [position |-> u.position, altitude |-> u.altitude])]
  ELSE u

\* Variant: one second of drain per tick whatever the tick's length.
DrainBattery_PerTick(battery, rate, deltaTime) == Max(0, battery - rate)

\* Variant: the drain without its floor.
DrainBattery_NoFloor(battery, rate, deltaTime) == battery - rate * deltaTime

\* Lines 275, 336, 345: Math.max(0, battery - rate * deltaTime).
DrainBattery(battery, rate, deltaTime) == Max(0, battery - rate * deltaTime)

\* Variant: completion is left to a later tick.
CompleteIfDone_Later(u, waypoints) == u

\* Variant: a finished route puts the vehicle straight into idle.
CompleteIfDone_Idle(u, waypoints) ==
  IF u.currentWaypointIndex >= Len(waypoints)
  THEN [u EXCEPT !.status = "idle"]
  ELSE u

\* Lines 277-282: all waypoints done, return to start.
CompleteIfDone(u, waypoints) ==
  IF u.currentWaypointIndex >= Len(waypoints)
  THEN [u EXCEPT !.status = "returning"]
  ELSE u

\* Lines 199-285: the searching branch once the setpoints are applied.
FollowRoute(uav, u, waypoints, deltaTime) ==
  IF Len(waypoints) > 0 /\ u.currentWaypointIndex < Len(waypoints)
  THEN LET u2 == AdvanceOrMove(uav, u, waypoints, deltaTime)
           u3 == AppendFlightPath(uav, u2)
           u4 == TrackAltitudeHistory(uav, u3)
           u5 == AddCoveragePoint(u4)
           u6 == [u5 EXCEPT !.battery = DrainBattery(uav.battery, SearchDrain, deltaTime)]
       IN CompleteIfDone(u6, waypoints)
  ELSE u

\* Variant: arrival without the snap to startPosition.
ReturnToStart_NoSnap(uav, deltaTime) ==
  IF uav.startPosition # <<>>
  THEN LET distance == calculateDistance(uav.position, uav.startPosition[1])
           u1 == IF distance < ArrivalThreshold
                 THEN [uav EXCEPT !.status = "idle", !.speed = 0, !.altitude = 0]
                 ELSE LET direction == calculateBearing(uav.position, uav.startPosition[1])
                          returnSpeedMs == ReturnSpeedMs(uav)
                          u2 == [uav EXCEPT
                                   !.direction = direction,
                                   !.speed = returnSpeedMs,
                                   !.altitude = IF uav.altitude # 0 THEN uav.altitude
                                                ELSE TargetAltitudeOf(uav),
                                   !.position = calculateNewPosition(
                                       uav.position, direction, returnSpeedMs, deltaTime)]
                      IN TrackAltitudeHistory(uav, AppendFlightPath(uav, u2))
       IN [u1 EXCEPT !.battery = DrainBattery(uav.battery, ReturnDrain, deltaTime)]
  ELSE [uav EXCEPT !.status = "idle", !.speed = 0]

\* Variant: without a start position the vehicle stays in returning.
ReturnToStart_NoFallback(uav, deltaTime) ==
  IF uav.startPosition # <<>>
  THEN LET distance == calculateDistance(uav.position, uav.startPosition[1])
           u1 == IF distance < ArrivalThreshold
                 THEN [uav EXCEPT !.status = "idle", !.speed = 0, !.altitude = 0,
                                  !.position = uav.startPosition[1]]
                 ELSE LET direction == calculateBearing(uav.position, uav.startPosition[1])
                          returnSpeedMs == ReturnSpeedMs(uav)
                          u2 == [uav EXCEPT
                                   !.direction = direction,
                                   !.speed = returnSpeedMs,
                                   !.altitude = IF uav.altitude # 0 THEN uav.altitude
                                                ELSE TargetAltitudeOf(uav),
                                   !.position = calculateNewPosition(
                                       uav.position, direction, returnSpeedMs, deltaTime)]
                      IN TrackAltitudeHistory(uav, AppendFlightPath(uav, u2))
       IN [u1 EXCEPT !.battery = DrainBattery(uav.battery, ReturnDrain, deltaTime)]
  ELSE uav

\* Lines 286-341: the returning branch.
ReturnToStart(uav, deltaTime) ==
  IF uav.startPosition # <<>>
  THEN LET distance == calculateDistance(uav.position, uav.startPosition[1])
           u1 == IF distance < ArrivalThreshold
                 THEN [uav EXCEPT !.status = "idle", !.speed = 0, !.altitude = 0,
                                  !.position = uav.startPosition[1]]
                 ELSE LET direction == calculateBearing(uav.position, uav.startPosition[1])
                          returnSpeedMs == ReturnSpeedMs(uav)
                          u2 == [uav EXCEPT
                                   !.direction = direction,
                                   !.speed = returnSpeedMs,
                                   !.altitude = IF uav.altitude # 0 THEN uav.altitude
                                                ELSE TargetAltitudeOf(uav),
                                   !.position = calculateNewPosition(
                                       uav.position, direction, returnSpeedMs, deltaTime)]
                      IN TrackAltitudeHistory(uav, AppendFlightPath(uav, u2))
       IN [u1 EXCEPT !.battery = DrainBattery(uav.battery, ReturnDrain, deltaTime)]
  ELSE [uav EXCEPT !.status = "idle", !.speed = 0]

\* Variant: a searching vehicle that is passed no route flies home.
updateUAVState_HomeWithoutRoute(uav, searchArea, deltaTime) ==
  IF ~uav.isOnline \/ uav.status = "offline" THEN uav
  ELSE IF ~uav.isMock THEN uav
  ELSE IF uav.status = "searching" /\ searchArea # <<>>
       THEN FollowRoute(uav, SearchingSetpoints(uav, deltaTime),
                        searchArea[1].bounds, deltaTime)
  ELSE IF uav.status \in {"returning", "searching"} THEN ReturnToStart(uav, deltaTime)
  ELSE IF uav.status = "idle"
       THEN [uav EXCEPT !.speed = 0,
                        !.battery = DrainBattery(uav.battery, IdleDrain, deltaTime)]
  ELSE uav

\* Variant: the mode branches without the offline and non-mock guards.
updateUAVState_NoGuards(uav, searchArea, deltaTime) ==
  IF uav.status = "searching" /\ searchArea # <<>>
  THEN FollowRoute(uav, SearchingSetpoints(uav, deltaTime),
                   searchArea[1].bounds, deltaTime)
  ELSE IF uav.status = "returning" THEN ReturnToStart(uav, deltaTime)
  ELSE IF uav.status = "idle"
       THEN [uav EXCEPT !.speed = 0,
                        !.battery = DrainBattery(uav.battery, IdleDrain, deltaTime)]
  ELSE uav

\* Lines 138-349.  searchArea is <<>> (undefined) or <<area>>.
updateUAVState(uav, searchArea, deltaTime) ==
  IF ~uav.isOnline \/ uav.status = "offline" THEN uav
  ELSE IF ~uav.isMock THEN uav
  ELSE IF uav.status = "searching" /\ searchArea # <<>>
       THEN FollowRoute(uav, SearchingSetpoints(uav, deltaTime),
                        searchArea[1].bounds, deltaTime)
  ELSE IF uav.status = "returning" THEN ReturnToStart(uav, deltaTime)
  ELSE IF uav.status = "idle"
       THEN [uav EXCEPT !.speed = 0,
                        !.battery = DrainBattery(uav.battery, IdleDrain, deltaTime)]
  ELSE uav

(***************************************************************************)
(* App.js: state after loadUAVs, the handlers and the simulation loop.     *)
(***************************************************************************)
\* App.js 253-270: a newly registered vehicle (index is its place in the list).
NewUAV(id, index, isMock, isOnline, status, battery) ==
  [id |-> id, position |-> index * SecondOffset, status |-> status,
   battery |-> battery, speed |-> 0, altitude |-> 0, direction |-> 0,
   isSearching |-> FALSE, flightPath |-> <<>>, coveragePoints |-> <<>>,
   isOnline |-> isOnline, isMock |-> isMock,
   targetSpeed |-> DefaultTargetSpeed, targetAltitude |-> DefaultTargetAltitude,
   currentWaypointIndex |-> Undefined, startPosition |-> <<>>,
   altitudeHistory |-> <<>>, altitudeHistorySampleCounter |-> Undefined]

\* The fields of selectedUAV the handlers and the control panel read.
SelectedView(uav) == [id |-> uav.id, status |-> uav.status, isOnline |-> uav.isOnline]

\* App.js 639: searchAreasRef.current.find(area => area.assignedUAV === uav.id)
RECURSIVE FindAssigned(_, _, _)
FindAssigned(areas, id, i) ==
  IF i > Len(areas) THEN <<>>
  ELSE IF areas[i].assignedUAV = id THEN <<areas[i]>>
  ELSE FindAssigned(areas, id, i + 1)

AssignedArea(areas, id) == FindAssigned(areas, id, 1)

\* App.js 501-503: findIndex(assignedUAV === selectedUAV.id && status === 'active')
RECURSIVE FindActiveIndex(_, _, _)
FindActiveIndex(areas, id, i) ==
  IF i > Len(areas) THEN 0
  ELSE IF areas[i].assignedUAV = id /\ areas[i].status = "active" THEN i
  ELSE FindActiveIndex(areas, id, i + 1)

\* The mock vehicle of the runs.
FirstUAV(setup) ==
  [NewUAV(1, 0, TRUE, TRUE, "idle", setup.battery) EXCEPT
     !.targetSpeed = setup.targetSpeed, !.targetAltitude = setup.targetAltitude]

\* A second registered vehicle: real, or a mock that is offline.
SecondUAV(kind) ==
  NewUAV(2, 1, kind # "real", kind # "notOnline",
         IF kind = "statusOffline" THEN "offline" ELSE "idle", FullBattery)

\* App.js 44-55: no record selected, nothing saved.
NoReplay ==
  [selectedHistoryRecord |-> <<>>, isReplaying |-> FALSE, replayWaypoint |-> 0,
   replaySpeed |-> 10, preReplayUAVs |-> <<>>, preReplaySearchAreas |-> <<>>]

InitRest ==
  /\ searchAreas = <<>>
  /\ searchAreasRef = <<>>
  /\ appendedSinceTick = 0
  /\ selectedUAV = <<>>
  /\ isDrawing = FALSE
  /\ isUpdatingRoute = FALSE
  /\ drawingPath = <<>>
  /\ pendingStart = {}
  /\ nextAreaId = 1
  /\ ticks = 0
  /\ setpointChanges = 0
  /\ replay = NoReplay

\* One mock vehicle is registered.
Init ==
  /\ \E setup \in InitSetups : uavs = [i \in {1} |-> FirstUAV(setup)]
  /\ tickBudget = MaxTicks
  /\ InitRest

\* A mock vehicle and a second vehicle that the simulation must leave alone.
InitFleet ==
  /\ \E setup \in InitSetups, kind \in SecondKinds :
       uavs = [i \in {1, 2} |-> IF i = 1 THEN FirstUAV(setup) ELSE SecondUAV(kind)]
  /\ tickBudget = FleetTicks
  /\ InitRest

\* App.js 633-654: one firing of the simulation interval.
Tick ==
  /\ ticks < tickBudget
  /\ replay.selectedHistoryRecord = <<>>
  /\ uavs' = [i \in DOMAIN uavs |->
                updateUAVState(uavs[i], AssignedArea(searchAreasRef, i), 1)]
  /\ selectedUAV' = IF selectedUAV = <<>> THEN <<>>
                    ELSE <<SelectedView(uavs'[selectedUAV[1].id])>>
  /\ ticks' = ticks + 1
  /\ appendedSinceTick' = 0
  /\ UNCHANGED <<searchAreas, searchAreasRef, isDrawing, isUpdatingRoute, drawingPath,
                 pendingStart, nextAreaId, tickBudget, setpointChanges, replay>>

\* A handler of the vehicle panel leaves the tick counters and the replay alone.
Frame == UNCHANGED <<ticks, tickBudget, replay>>

\* Variant: the loop keeps the list it saw when the mission became active.
SyncRef_CachedAtStart(current, areas) ==
  IF current # <<>> /\ Len(current) = Len(areas) /\ current[1].status = "active"
  THEN current
  ELSE areas

\* App.js 27-29: the effect that runs after every change of searchAreas.
SyncRef(current, areas) == areas

\* A handler that leaves the routes alone.
AreasUnchanged == UNCHANGED <<searchAreas, searchAreasRef, appendedSinceTick>>

Selected == selectedUAV[1]

\* UAVControlPanel 237, 274: which button group the panel renders.
SelectedIs(statuses) == selectedUAV # <<>> /\ Selected.status \in statuses

\* App.js 446-463 with a vehicle: a click on its list entry or its map marker
\* (the marker is rendered unless the vehicle is both not online and offline).
handleSelectUAV(id) ==
  /\ ~(~uavs[id].isOnline /\ uavs[id].status = "offline")
  /\ selectedUAV' = <<SelectedView(uavs[id])>>
  /\ isDrawing' = FALSE
  /\ drawingPath' = IF isDrawing THEN <<>> ELSE drawingPath
  /\ isUpdatingRoute' = IF isDrawing THEN FALSE ELSE isUpdatingRoute
  /\ Frame
  /\ AreasUnchanged
  /\ UNCHANGED <<uavs, pendingStart, nextAreaId, setpointChanges>>

\* App.js 446-463 with null: the panel's "Back to Fleet" button.
handleDeselectUAV ==
  /\ selectedUAV # <<>>
  /\ selectedUAV' = <<>>
  /\ isDrawing' = FALSE
  /\ drawingPath' = <<>>
  /\ isUpdatingRoute' = FALSE
  /\ Frame
  /\ AreasUnchanged
  /\ UNCHANGED <<uavs, pendingStart, nextAreaId, setpointChanges>>

\* App.js 466-486, reached from UAVControlPanel 24-28 (idle, not drawing).
handleStartDrawing ==
  /\ SelectedIs({"idle"}) /\ Selected.isOnline /\ ~isDrawing
  /\ isDrawing' = TRUE
  /\ drawingPath' = <<>>
  /\ searchAreas' = <<>>
  /\ searchAreasRef' = SyncRef(searchAreasRef, searchAreas')
  /\ appendedSinceTick' = 0
  /\ uavs' = [uavs EXCEPT ![Selected.id] =
                [@ EXCEPT !.flightPath = <<>>, !.coveragePoints = <<>>,
                          !.currentWaypointIndex = Undefined, !.status = "idle"]]
  /\ Frame
  /\ UNCHANGED <<selectedUAV, isUpdatingRoute, pendingStart, nextAreaId, setpointChanges>>

\* App.js 488-492, the idle panel's CANCEL DRAWING button.
handleCancelDrawing ==
  /\ SelectedIs({"idle"}) /\ isDrawing
  /\ isDrawing' = FALSE
  /\ drawingPath' = <<>>
  /\ isUpdatingRoute' = FALSE
  /\ Frame
  /\ AreasUnchanged
  /\ UNCHANGED <<uavs, selectedUAV, pendingStart, nextAreaId, setpointChanges>>

\* Variant: the new waypoint is put in front of the route.
AppendToActiveArea_Prepend(areas, id, newWaypoint) ==
  LET activeAreaIndex == FindActiveIndex(areas, id, 1)
  IN IF activeAreaIndex = 0 THEN areas
     ELSE [areas EXCEPT ![activeAreaIndex].bounds = <<newWaypoint>> \o @]

\* App.js 500-522: the setSearchAreas updater of handleAddWaypoint.
AppendToActiveArea(areas, id, newWaypoint) ==
  LET activeAreaIndex == FindActiveIndex(areas, id, 1)
  IN IF activeAreaIndex = 0 THEN areas
     ELSE [areas EXCEPT ![activeAreaIndex].bounds = Append(@, newWaypoint)]

\* Room left under the model's bound on route length.
RoomToAppend ==
  /\ Len(drawingPath) < MaxRouteLen
  /\ \A i \in 1..Len(searchAreas) : Len(searchAreas[i].bounds) < MaxRouteLen

\* App.js 494-528: a map click while drawing.
handleAddWaypoint(latlng) ==
  /\ isDrawing
  /\ RoomToAppend
  /\ searchAreas' = IF isUpdatingRoute /\ selectedUAV # <<>>
                    THEN AppendToActiveArea(searchAreas, Selected.id, latlng)
                    ELSE searchAreas
  /\ searchAreasRef' = SyncRef(searchAreasRef, searchAreas')
  /\ appendedSinceTick' = IF searchAreas' # searchAreas THEN appendedSinceTick + 1
                          ELSE appendedSinceTick
  /\ drawingPath' = Append(drawingPath, latlng)
  /\ Frame
  /\ UNCHANGED <<uavs, selectedUAV, isDrawing, isUpdatingRoute, pendingStart,
                 nextAreaId, setpointChanges>>

\* App.js 401-410 and 530-580 (no external flight controller configured),
\* reached from UAVControlPanel 24-42: START FLIGHT on a new route.
handleCompleteAndStartFlight ==
  /\ SelectedIs({"idle"}) /\ Selected.isOnline
  /\ isDrawing /\ ~isUpdatingRoute
  /\ Len(drawingPath) >= 2
  /\ nextAreaId <= MaxAreas
  /\ searchAreas' = Append(searchAreas,
                           [id |-> nextAreaId, bounds |-> drawingPath,
                            status |-> "pending", assignedUAV |-> 0])
  /\ searchAreasRef' = SyncRef(searchAreasRef, searchAreas')
  /\ UNCHANGED appendedSinceTick
  /\ nextAreaId' = nextAreaId + 1
  /\ pendingStart' = pendingStart \cup {<<Selected.id, nextAreaId>>}
  /\ drawingPath' = <<>>
  /\ isDrawing' = FALSE
  /\ Frame
  /\ UNCHANGED <<uavs, selectedUAV, isUpdatingRoute, setpointChanges>>

\* App.js 413-429, fired by the 100 ms timer of handleCompleteAndStartFlight.
handleStartSearch(uavId, areaId) ==
  /\ <<uavId, areaId>> \in pendingStart
  /\ pendingStart' = pendingStart \ {<<uavId, areaId>>}
  /\ uavs' = [uavs EXCEPT ![uavId] =
                [@ EXCEPT !.status = "searching", !.isSearching = TRUE,
                          !.startPosition = <<uavs[uavId].position>>]]
  /\ searchAreas' = [i \in 1..Len(searchAreas) |->
                       IF searchAreas[i].id = areaId
                       THEN [searchAreas[i] EXCEPT !.status = "active",
                                                   !.assignedUAV = uavId]
                       ELSE searchAreas[i]]
  /\ searchAreasRef' = SyncRef(searchAreasRef, searchAreas')
  /\ UNCHANGED appendedSinceTick
  /\ Frame
  /\ UNCHANGED <<selectedUAV, isDrawing, isUpdatingRoute, drawingPath,
                 nextAreaId, setpointChanges>>

\* Variant: cancelling also forgets where the flight started.
CancelSearch_ForgetStart(list, uavId) ==
  [list EXCEPT ![uavId] = [@ EXCEPT !.status = "returning", !.isSearching = FALSE,
                                    !.startPosition = <<>>]]

\* App.js 432-443: the uavs updater of handleCancelSearch.
CancelSearch(list, uavId) ==
  [list EXCEPT ![uavId] = [@ EXCEPT !.status = "returning", !.isSearching = FALSE]]

\* CANCEL FLIGHT (UAVControlPanel 286-293), outside drawing mode.
handleCancelSearch ==
  /\ SelectedIs({"searching", "returning"}) /\ Selected.isOnline /\ ~isDrawing
  /\ uavs' = CancelSearch(uavs, Selected.id)
  /\ Frame
  /\ AreasUnchanged
  /\ UNCHANGED <<selectedUAV, isDrawing, isUpdatingRoute, drawingPath, pendingStart, nextAreaId, setpointChanges>>

\* CANCEL FLIGHT while adding waypoints (UAVControlPanel 307-317):
\* handleCancelDrawing, then handleCancelSearch.
handleCancelFlightWhileDrawing ==
  /\ SelectedIs({"searching", "returning"}) /\ isDrawing
  /\ isDrawing' = FALSE
  /\ drawingPath' = <<>>
  /\ isUpdatingRoute' = FALSE
  /\ uavs' = CancelSearch(uavs, Selected.id)
  /\ Frame
  /\ AreasUnchanged
  /\ UNCHANGED <<selectedUAV, pendingStart, nextAreaId, setpointChanges>>

\* App.js 590-597: resume searching if the selected vehicle was returning.
ResumeIfReturning(list, sel) ==
  IF sel.status = "returning"
  THEN [list EXCEPT ![sel.id] = [@ EXCEPT !.status = "searching"]]
  ELSE list

\* App.js 583-599, UPDATE ROUTE (UAVControlPanel 278-285).
handleStartUpdateRoute ==
  /\ SelectedIs({"searching", "returning"}) /\ Selected.isOnline /\ ~isDrawing
  /\ drawingPath' = <<>>
  /\ isDrawing' = TRUE
  /\ isUpdatingRoute' = TRUE
  /\ uavs' = ResumeIfReturning(uavs, Selected)
  /\ Frame
  /\ AreasUnchanged
  /\ UNCHANGED <<selectedUAV, pendingStart, nextAreaId, setpointChanges>>

\* UAVControlPanel 297-306 (DONE ADDING WAYPOINTS) and 24-36 (idle panel,
\* update in progress, at least one waypoint drawn).
CanCompleteUpdate ==
  IF SelectedIs({"searching", "returning"}) THEN isDrawing
  ELSE /\ SelectedIs({"idle"}) /\ Selected.isOnline
       /\ isDrawing /\ isUpdatingRoute /\ Len(drawingPath) >= 1

\* App.js 601-607.
handleCompleteUpdateRoute ==
  /\ CanCompleteUpdate
  /\ isDrawing' = FALSE
  /\ drawingPath' = <<>>
  /\ isUpdatingRoute' = FALSE
  /\ Frame
  /\ AreasUnchanged
  /\ UNCHANGED <<uavs, selectedUAV, pendingStart, nextAreaId, setpointChanges>>

\* App.js 610-616, from the speed slider of TelemetryDisplay 164-170.
handleSpeedChange(speed) ==
  /\ selectedUAV # <<>> /\ Selected.isOnline
  /\ setpointChanges < MaxSetpointChanges
  /\ uavs[Selected.id].targetSpeed # speed
  /\ uavs' = [uavs EXCEPT ![Selected.id].targetSpeed = speed]
  /\ setpointChanges' = setpointChanges + 1
  /\ Frame
  /\ AreasUnchanged
  /\ UNCHANGED <<selectedUAV, isDrawing, isUpdatingRoute, drawingPath, pendingStart, nextAreaId>>

\* App.js 619-625, from the altitude slider of TelemetryDisplay 119-125.
handleAltitudeChange(altitude) ==
  /\ selectedUAV # <<>> /\ Selected.isOnline
  /\ setpointChanges < MaxSetpointChanges
  /\ uavs[Selected.id].targetAltitude # altitude
  /\ uavs' = [uavs EXCEPT ![Selected.id].targetAltitude = altitude]
  /\ setpointChanges' = setpointChanges + 1
  /\ Frame
  /\ AreasUnchanged
  /\ UNCHANGED <<selectedUAV, isDrawing, isUpdatingRoute, drawingPath, pendingStart, nextAreaId>>

Next ==
  \/ Tick
  \/ \E id \in DOMAIN uavs : handleSelectUAV(id)
  \/ handleDeselectUAV
  \/ handleStartDrawing
  \/ handleCancelDrawing
  \/ \E latlng \in WaypointChoices : handleAddWaypoint(latlng)
  \/ handleCompleteAndStartFlight
  \/ \E uavId \in DOMAIN uavs, areaId \in 1..MaxAreas : handleStartSearch(uavId, areaId)
  \/ handleCancelSearch
  \/ handleCancelFlightWhileDrawing
  \/ handleStartUpdateRoute
  \/ handleCompleteUpdateRoute
  \/ \E speed \in SpeedChoices : handleSpeedChange(speed)
  \/ \E altitude \in AltitudeChoices : handleAltitudeChange(altitude)

Spec == Init /\ [][Next]_vars

SpecFleet == InitFleet /\ [][Next]_vars

\* Two mock vehicles are registered, the second 22 m from the first.
InitPair ==
  /\ \E setup \in InitSetups :
       uavs = [i \in {1, 2} |->
                 IF i = 1 THEN FirstUAV(setup)
                 ELSE NewUAV(2, 1, TRUE, TRUE, "idle", FullBattery)]
  /\ tickBudget = FleetTicks
  /\ InitRest

SpecPair == InitPair /\ [][Next]_vars

(***************************************************************************)
(* App.js 95-149: the events of external vehicles (matched by name), and   *)
(* a run in which a mock vehicle has been flying a long leg for WarmUp     *)
(* ticks while a real vehicle has reported its position WarmUp times.      *)
(***************************************************************************)
\* What a telemetry report carries (apiClient.js 108-119); a field the record
\* lacks is undefined.
TelemetrySteps == {7}
TelemetryAltitudes == {0, 60}
TelemetryBatteries == {Undefined, 8000}
TelemetrySpeeds == {Undefined, 90}

\* The vehicles the external system reports on: the registered real ones.
ExternalVehicles == {i \in DOMAIN uavs : ~uavs[i].isMock}

\* App.js 100-109: the vehicle after uav-flight-started.
FlightStarted(uav) ==
  [uav EXCEPT !.status = "searching", !.isSearching = TRUE,
              !.startPosition = <<uav.position>>]

\* App.js 116-125: the vehicle after uav-flight-stopped.
FlightStopped(uav) ==
  [uav EXCEPT !.status = "idle", !.isSearching = FALSE, !.speed = 0]

\* App.js 132-144: the vehicle after uav-telemetry-updated.
TelemetryUpdated(uav, position, altitude, battery, speed) ==
  [uav EXCEPT
     !.position = position,
     !.altitude = IF altitude # 0 THEN altitude ELSE uav.altitude,
     !.battery = IF battery # Undefined THEN battery ELSE uav.battery,
     !.speed = IF speed # Undefined THEN speed ELSE uav.speed,
     !.flightPath = Append(uav.flightPath, position)]

\* An event handler touches the vehicle list only.
EventFrame ==
  /\ Frame
  /\ AreasUnchanged
  /\ UNCHANGED <<selectedUAV, isDrawing, isUpdatingRoute, drawingPath,
                 pendingStart, nextAreaId, setpointChanges>>

handleFlightStarted(id) ==
  /\ uavs' = [uavs EXCEPT ![id] = FlightStarted(uavs[id])]
  /\ EventFrame

handleFlightStopped(id) ==
  /\ uavs' = [uavs EXCEPT ![id] = FlightStopped(uavs[id])]
  /\ EventFrame

handleTelemetryUpdated(id, step, altitude, battery, speed) ==
  /\ Len(uavs[id].flightPath) < WarmUp + MaxTelemetry
  /\ uavs' = [uavs EXCEPT ![id] =
                TelemetryUpdated(uavs[id], uavs[id].position + step,
                                 altitude, battery, speed)]
  /\ EventFrame

\* n firings of the simulation interval on one vehicle and its route (a
\* vehicle that is not online is left alone by every later firing too).
RECURSIVE TickTimes(_, _, _)
TickTimes(uav, searchArea, n) ==
  IF n = 0 THEN uav
  ELSE LET next == updateUAVState(uav, searchArea, 1)
       IN IF next.isOnline THEN TickTimes(next, searchArea, n - 1) ELSE next

\* n telemetry reports of a vehicle flying north.
RECURSIVE TelemetryTimes(_, _)
TelemetryTimes(uav, n) ==
  IF n = 0 THEN uav
  ELSE LET next == TelemetryUpdated(uav, uav.position + 7, 60, Undefined, 120)
       IN IF next.position > uav.position THEN TelemetryTimes(next, n - 1) ELSE next

\* A route whose second waypoint is 1.6 km out (handleCompleteAndStartFlight
\* and handleStartSearch on two map clicks).
LongRoute ==
  [id |-> 1, bounds |-> <<111, 16000>>, status |-> "active", assignedUAV |-> 1]

InitStream ==
  /\ uavs = [i \in {1, 2} |->
               IF i = 1
               THEN TickTimes(
                      TickTimes(
                        FlightStarted(FirstUAV([battery |-> FullBattery,
                                                targetSpeed |-> DefaultTargetSpeed,
                                                targetAltitude |-> DefaultTargetAltitude])),
                        <<LongRoute>>, WarmUp \div 2),
                      <<LongRoute>>, WarmUp - WarmUp \div 2)
               ELSE TelemetryTimes(
                      TelemetryTimes(FlightStarted(SecondUAV("real")), WarmUp \div 2),
                      WarmUp - WarmUp \div 2)]
  /\ searchAreas = <<LongRoute>>
  /\ searchAreasRef = <<LongRoute>>
  /\ appendedSinceTick = 0
  /\ selectedUAV = <<>>
  /\ isDrawing = FALSE
  /\ isUpdatingRoute = FALSE
  /\ drawingPath = <<>>
  /\ pendingStart = {}
  /\ nextAreaId = 2
  /\ ticks = WarmUp
  /\ tickBudget = WarmUp + StreamTicks
  /\ setpointChanges = 0
  /\ replay = NoReplay

NextStream ==
  \/ Tick
  \/ \E id \in DOMAIN uavs : handleSelectUAV(id)
  \/ handleCancelSearch
  \/ \E id \in ExternalVehicles : handleFlightStarted(id)
  \/ \E id \in ExternalVehicles : handleFlightStopped(id)
  \/ \E id \in ExternalVehicles, step \in TelemetrySteps, altitude \in TelemetryAltitudes,
        battery \in TelemetryBatteries, speed \in TelemetrySpeeds :
        handleTelemetryUpdated(id, step, altitude, battery, speed)

SpecStream == InitStream /\ [][NextStream]_vars

(***************************************************************************)
(* updateUAVState as a function of its arguments: the vehicle and the      *)
(* route of the first firing are drawn from input sets, then the interval  *)
(* fires InputTicks times.                                                 *)
(***************************************************************************)
InputKinds == {"mock", "real", "notOnline"}
InputModes == {"idle", "searching", "returning", "offline"}
InputPositions == {0, 150, 300}
InputStarts == {<<>>, <<0>>}
InputIndexes == {Undefined, 0, 1, 2}
InputBounds == {<<>>, <<111>>, <<111, 400>>}
InputBatteries == {FullBattery, 5}
InputAltitudes == {0, 40, 79, 80}
InputTargetAltitudes == {40, 80}
InputSpeeds == {0, 138}
InputTargetSpeeds == {36, 50}

\* A vehicle record with the drawn fields.
InputUAV(kind, mode, position, start, index, battery, altitude, targetAltitude, speed, targetSpeed) ==
  [NewUAV(1, 0, kind # "real", kind # "notOnline", mode, battery) EXCEPT
     !.position = position, !.startPosition = start,
     !.currentWaypointIndex = index, !.altitude = altitude,
     !.targetAltitude = targetAltitude, !.speed = speed,
     !.targetSpeed = targetSpeed, !.isSearching = (mode = "searching")]

\* The list of routes with the drawn route in it (none, or one assigned to
\* the vehicle).
InputAreas == {<<>>} \cup
  { <<[id |-> 1, bounds |-> b, status |-> "active", assignedUAV |-> 1]>> :
      b \in InputBounds }

InitInputs ==
  /\ \E kind \in InputKinds, mode \in InputModes, position \in InputPositions,
        start \in InputStarts, index \in InputIndexes, battery \in InputBatteries,
        altitude \in InputAltitudes, targetAltitude \in InputTargetAltitudes,
        speed \in InputSpeeds, targetSpeed \in InputTargetSpeeds :
       uavs = [i \in {1} |->
                 InputUAV(kind, mode, position, start, index, battery, altitude,
                          targetAltitude, speed, targetSpeed)]
  /\ \E areas \in InputAreas : searchAreas = areas /\ searchAreasRef = areas
  /\ appendedSinceTick = 0
  /\ selectedUAV = <<>>
  /\ isDrawing = FALSE
  /\ isUpdatingRoute = FALSE
  /\ drawingPath = <<>>
  /\ pendingStart = {}
  /\ nextAreaId = 2
  /\ ticks = 0
  /\ tickBudget = InputTicks
  /\ setpointChanges = 0
  /\ replay = NoReplay

SpecInputs == InitInputs /\ [][Tick]_vars

(***************************************************************************)
(* The simulation interval left running for as long as the page is open:   *)
(* ticks are not counted, and the operator never cancels a flight.  The    *)
(* vehicle starts on a nearly empty battery, which the tick drains to 0    *)
(* and which does not stop a flight, so the reachable states stay finite.  *)
(***************************************************************************)
InitLive ==
  /\ uavs = [i \in {1} |->
               [NewUAV(1, 0, TRUE, TRUE, "idle", LiveBattery) EXCEPT
                  !.targetSpeed = 36, !.targetAltitude = 40]]
  /\ tickBudget = 0
  /\ InitRest

\* App.js 633-654: one firing of the simulation interval, not counted.
TickLive ==
  /\ replay.selectedHistoryRecord = <<>>
  /\ uavs' = [i \in DOMAIN uavs |->
                updateUAVState(uavs[i], AssignedArea(searchAreasRef, i), 1)]
  /\ selectedUAV' = IF selectedUAV = <<>> THEN <<>>
                    ELSE <<SelectedView(uavs'[selectedUAV[1].id])>>
  /\ appendedSinceTick' = 0
  /\ UNCHANGED <<searchAreas, searchAreasRef, isDrawing, isUpdatingRoute, drawingPath,
                 pendingStart, nextAreaId, ticks, tickBudget, setpointChanges, replay>>

NextLive ==
  \/ TickLive
  \/ \E id \in DOMAIN uavs : handleSelectUAV(id)
  \/ handleDeselectUAV
  \/ handleStartDrawing
  \/ handleCancelDrawing
  \/ \E latlng \in WaypointChoices : handleAddWaypoint(latlng)
  \/ handleCompleteAndStartFlight
  \/ \E uavId \in DOMAIN uavs, areaId \in 1..MaxAreas : handleStartSearch(uavId, areaId)
  \/ handleStartUpdateRoute
  \/ handleCompleteUpdateRoute

\* setInterval fires the loop every second for as long as the page is open.
SpecLive == InitLive /\ [][NextLive]_vars /\ WF_vars(TickLive)

(***************************************************************************)
(* One flight left alone: a mock vehicle that handleStartSearch has just   *)
(* put on a fixed route, and the simulation interval as the only actor.    *)
(***************************************************************************)
\* Waypoints ahead of, behind and far from the start positions.
FlightWaypoints == {111, 400, 900, -300}
\* The ends and the middle of the speed slider (TelemetryDisplay 164-170).
FlightSpeeds == {20, 36, 70}
FlightStarts == {0, 222}

FlightRoutes ==
  {<<a>> : a \in FlightWaypoints}
    \cup {<<a, b>> : a \in FlightWaypoints, b \in FlightWaypoints}

InitFlight ==
  /\ \E start \in FlightStarts, speed \in FlightSpeeds, bounds \in FlightRoutes :
       /\ uavs = [i \in {1} |->
                    [NewUAV(1, 0, TRUE, TRUE, "searching", LiveBattery) EXCEPT
                       !.position = start, !.startPosition = <<start>>,
                       !.isSearching = TRUE, !.targetSpeed = speed]]
       /\ searchAreas = <<[id |-> 1, bounds |-> bounds, status |-> "active",
                           assignedUAV |-> 1]>>
  /\ searchAreasRef = searchAreas
  /\ appendedSinceTick = 0
  /\ selectedUAV = <<>>
  /\ isDrawing = FALSE
  /\ isUpdatingRoute = FALSE
  /\ drawingPath = <<>>
  /\ pendingStart = {}
  /\ nextAreaId = 2
  /\ ticks = 0
  /\ tickBudget = 0
  /\ setpointChanges = 0
  /\ replay = NoReplay

SpecFlight == InitFlight /\ [][TickLive]_vars /\ WF_vars(TickLive)

(***************************************************************************)
(* The operator's handlers and the simulation loop together with the       *)
(* uav-flight-started event, which the backend can send for any registered *)
(* vehicle (the listener matches by name, App.js 100-101).                 *)
(***************************************************************************)
\* The route of a mission flown earlier; DEFINE ROUTE replaces it.
EarlierRoute == [id |-> 0, bounds |-> <<111, 400, 400>>, status |-> "active", assignedUAV |-> 1]

\* The vehicle is new, or it has flown EarlierRoute and is back home in idle
\* with the index that mission left behind.
InitEvents ==
  /\ \/ /\ uavs = [i \in {1} |-> NewUAV(1, 0, TRUE, TRUE, "idle", FullBattery)]
        /\ searchAreas = <<>>
     \/ /\ uavs = [i \in {1} |->
                     TickTimes(FlightStarted(NewUAV(1, 0, TRUE, TRUE, "idle", FullBattery)),
                               <<EarlierRoute>>, 2 * EventTicks)]
        /\ searchAreas = <<EarlierRoute>>
  /\ searchAreasRef = searchAreas
  /\ appendedSinceTick = 0
  /\ selectedUAV = <<>>
  /\ isDrawing = FALSE
  /\ isUpdatingRoute = FALSE
  /\ drawingPath = <<>>
  /\ pendingStart = {}
  /\ nextAreaId = 1
  /\ ticks = 0
  /\ tickBudget = EventTicks
  /\ setpointChanges = 0
  /\ replay = NoReplay

NextEvents ==
  \/ Next
  \/ \E id \in DOMAIN uavs : handleFlightStarted(id)

SpecEvents == InitEvents /\ [][NextEvents]_vars

(***************************************************************************)
(* Replay of a recorded flight (App.js 212-227 and 307-378, and            *)
(* ReplayControls.js).  A record is modelled by the number of waypoints    *)
(* it holds.  While a record is selected the simulation interval does      *)
(* nothing (App.js 630), so only the replay handlers act.                  *)
(***************************************************************************)
\* ReplayControls.js 22: the playback speeds on offer, in tenths.
speedOptions == {5, 10, 20, 50}

\* selectedHistoryRecord.waypoints.length of the record being replayed.
totalWaypoints == replay.selectedHistoryRecord[1]

\* The state the replay handlers never write.
ReplayFrame ==
  UNCHANGED <<isDrawing, isUpdatingRoute, drawingPath, pendingStart,
              nextAreaId, ticks, tickBudget, setpointChanges, appendedSinceTick>>

\* App.js 307-333: the operator plays a record of the history tab.
handlePlayRecord(record) ==
  /\ uavs' = <<>>
  /\ searchAreas' = <<>>
  /\ searchAreasRef' = SyncRef(searchAreasRef, searchAreas')
  /\ selectedUAV' = <<>>
  /\ replay' = [replay EXCEPT !.preReplayUAVs = <<uavs>>,
                              !.preReplaySearchAreas = <<searchAreas>>,
                              !.selectedHistoryRecord = <<record>>,
                              !.replayWaypoint = 0,
                              !.isReplaying = TRUE]
  /\ ReplayFrame

\* App.js 335-357: the replay is closed and the saved fleet is put back.
handleStopReplay ==
  /\ replay.selectedHistoryRecord # <<>>
  /\ uavs' = IF replay.preReplayUAVs # <<>> THEN replay.preReplayUAVs[1] ELSE uavs
  /\ searchAreas' = IF replay.preReplaySearchAreas # <<>>
                    THEN replay.preReplaySearchAreas[1] ELSE searchAreas
  /\ searchAreasRef' = SyncRef(searchAreasRef, searchAreas')
  /\ replay' = [replay EXCEPT !.isReplaying = FALSE,
                              !.selectedHistoryRecord = <<>>,
                              !.replayWaypoint = 0,
                              !.preReplayUAVs = <<>>,
                              !.preReplaySearchAreas = <<>>]
  /\ UNCHANGED selectedUAV
  /\ ReplayFrame

\* App.js 217-223: what one firing of the replay timer does to the cursor.
AutoAdvance(prev, length) ==
  IF prev >= length - 1
  THEN [replayWaypoint |-> prev, isReplaying |-> FALSE]
  ELSE [replayWaypoint |-> prev + 1, isReplaying |-> TRUE]

\* App.js 213-227: the replay timer fires; it exists only while playing.
ReplayTimer ==
  /\ replay.isReplaying
  /\ replay.selectedHistoryRecord # <<>>
  /\ LET next == AutoAdvance(replay.replayWaypoint, totalWaypoints)
     IN replay' = [replay EXCEPT !.replayWaypoint = next.replayWaypoint,
                                 !.isReplaying = next.isReplaying]
  /\ UNCHANGED <<uavs, searchAreas, searchAreasRef, selectedUAV>>
  /\ ReplayFrame

\* App.js 359-361: the play/pause button of the replay controls.
handlePlayPause ==
  /\ replay.selectedHistoryRecord # <<>>
  /\ replay' = [replay EXCEPT !.isReplaying = ~replay.isReplaying]
  /\ UNCHANGED <<uavs, searchAreas, searchAreasRef, selectedUAV>>
  /\ ReplayFrame

\* App.js 363-370; ReplayControls.js 59 disables the button on the last waypoint.
handleNextWaypoint ==
  /\ replay.selectedHistoryRecord # <<>>
  /\ ~(replay.replayWaypoint >= totalWaypoints - 1)
  /\ replay' = [replay EXCEPT !.replayWaypoint =
                  IF replay.replayWaypoint < totalWaypoints - 1
                  THEN replay.replayWaypoint + 1 ELSE replay.replayWaypoint]
  /\ UNCHANGED <<uavs, searchAreas, searchAreasRef, selectedUAV>>
  /\ ReplayFrame

\* App.js 372-374; ReplayControls.js 34 disables the button on waypoint 0.
handlePreviousWaypoint ==
  /\ replay.selectedHistoryRecord # <<>>
  /\ replay.replayWaypoint # 0
  /\ replay' = [replay EXCEPT !.replayWaypoint = Max(0, replay.replayWaypoint - 1)]
  /\ UNCHANGED <<uavs, searchAreas, searchAreasRef, selectedUAV>>
  /\ ReplayFrame

\* App.js 376-378: the cursor is set to what the controls computed.
handleSeekWaypoint(waypoint) ==
  /\ replay.selectedHistoryRecord # <<>>
  /\ replay' = [replay EXCEPT !.replayWaypoint = waypoint]
  /\ UNCHANGED <<uavs, searchAreas, searchAreasRef, selectedUAV>>
  /\ ReplayFrame

\* The event's clientX is a whole number of CSS pixels: the pointer's
\* position (in 1/PixelParts pixel) with its fraction dropped.
clientX(pointer) == (pointer \div PixelParts) * PixelParts

\* ReplayControls.js 74-77: the waypoint a click on the progress bar seeks
\* to.  rect.left and rect.width are fractional; lengths are in
\* 1/PixelParts pixel, and Math.floor is \div, which rounds down.
SeekTarget(pointer, left, width, total) ==
  LET clickX == clientX(pointer) - left
  IN (clickX * total) \div width

\* ReplayControls.js 71-80: a click on the progress bar.  The bar's left
\* edge lies anywhere within a pixel and the pointer anywhere on the bar.
ProgressBarClick ==
  /\ replay.selectedHistoryRecord # <<>>
  /\ \E left \in 0..(PixelParts - 1), pointer \in 0..(PixelParts + BarWidth - 2) :
       /\ pointer >= left
       /\ pointer < left + BarWidth
       /\ handleSeekWaypoint(SeekTarget(pointer, left, BarWidth, totalWaypoints))

\* ReplayControls.js 92-99: the speed selector.
setReplaySpeed ==
  /\ replay.selectedHistoryRecord # <<>>
  /\ \E speed \in speedOptions : replay' = [replay EXCEPT !.replaySpeed = speed]
  /\ UNCHANGED <<uavs, searchAreas, searchAreasRef, selectedUAV>>
  /\ ReplayFrame

\* The fleet is loaded and idle; the operator opens the history tab.
InitReplay ==
  /\ \E setup \in InitSetups : uavs = [i \in {1} |-> FirstUAV(setup)]
  /\ tickBudget = 0
  /\ InitRest

NextReplay ==
  \/ \E record \in 1..MaxReplayLen : handlePlayRecord(record)
  \/ handleStopReplay
  \/ ReplayTimer
  \/ handlePlayPause
  \/ handleNextWaypoint
  \/ handlePreviousWaypoint
  \/ ProgressBarClick
  \/ setReplaySpeed

SpecReplay == InitReplay /\ [][NextReplay]_vars

(***************************************************************************)
(* Properties.  A step with ticks' = ticks + 1 is a firing of the          *)
(* simulation interval; every other step is an operator handler.           *)
(***************************************************************************)
IsTick == ticks' = ticks + 1

\* A vehicle the tick simulates: online, not in offline mode, and mock.
Simulated(uav) == uav.isOnline /\ uav.status # "offline" /\ uav.isMock

\* The index the searching branch works with (undefined is initialised to 0).
EffectiveIndex(uav) ==
  IF uav.currentWaypointIndex = Undefined THEN 0 ELSE uav.currentWaypointIndex

IsPrefix(s, t) == Len(s) <= Len(t) /\ SubSeq(t, 1, Len(s)) = s

Modes == {"idle", "searching", "returning", "offline"}

\* Routes handed to the tick function directly: none, empty, one or two waypoints.
ProbeRoutes(id) ==
  {<<>>} \cup
  { <<[id |-> 1, bounds |-> b, status |-> "active", assignedUAV |-> id]>> :
      b \in {<<>>, <<111>>, <<111, 400>>} }

\* C1: whenever a searching vehicle's currentWaypointIndex equals the length
\* of its non-empty assigned route, the next tick leaves the vehicle in mode
\* returning (as stated, including a vehicle resumed by update-route).
C1_Original ==
  [][IsTick =>
       \A i \in DOMAIN uavs :
         LET r == AssignedArea(searchAreasRef, i)
         IN (/\ Simulated(uavs[i])
             /\ uavs[i].status = "searching"
             /\ r # <<>>
             /\ Len(r[1].bounds) > 0
             /\ uavs[i].currentWaypointIndex = Len(r[1].bounds))
            => uavs'[i].status = "returning"]_vars

\* C2 (as stated): a tick after an append uses the extended list; a vehicle
\* that reaches the old last waypoint stays searching, and a vehicle waiting
\* at index = old length starts moving toward the appended waypoint.
C2_Original ==
  [][IsTick =>
       \A i \in DOMAIN uavs :
         LET r == AssignedArea(searchAreas, i)
         IN (/\ Simulated(uavs[i])
             /\ uavs[i].status = "searching"
             /\ appendedSinceTick > 0
             /\ r # <<>>)
            => LET bounds == r[1].bounds
                   old == Len(bounds) - appendedSinceTick
                   idx == uavs[i].currentWaypointIndex
                   pos == uavs[i].position
               IN /\ uavs'[i] = updateUAVState(uavs[i], r, 1)
                  /\ uavs'[i].startPosition = uavs[i].startPosition
                  /\ (idx = old - 1
                        /\ calculateDistance(pos, bounds[old]) < ArrivalThreshold)
                     => /\ uavs'[i].status = "searching"
                        /\ uavs'[i].currentWaypointIndex = old
                  /\ idx = old
                     => /\ uavs'[i].position # pos
                        /\ calculateDistance(uavs'[i].position, bounds[old + 1])
                             < calculateDistance(pos, bounds[old + 1])]_vars

\* C2 (amended): a tick after an append is the tick function applied to the
\* extended list, the mission is not restarted, a vehicle that reaches the
\* old last waypoint stays searching, and a vehicle waiting at index = old
\* length targets the appended waypoint: it moves toward it, or, when it is
\* already less than 20 m from it, advances past it without moving.
C2_Amended ==
  [][IsTick =>
       \A i \in DOMAIN uavs :
         LET r == AssignedArea(searchAreas, i)
         IN (/\ Simulated(uavs[i])
             /\ uavs[i].status = "searching"
             /\ appendedSinceTick > 0
             /\ r # <<>>)
            => LET bounds == r[1].bounds
                   old == Len(bounds) - appendedSinceTick
                   idx == uavs[i].currentWaypointIndex
                   pos == uavs[i].position
               IN /\ uavs'[i] = updateUAVState(uavs[i], r, 1)
                  /\ uavs'[i].startPosition = uavs[i].startPosition
                  /\ idx # Undefined => uavs'[i].currentWaypointIndex >= idx
                  /\ (idx = old - 1
                        /\ calculateDistance(pos, bounds[old]) < ArrivalThreshold)
                     => /\ uavs'[i].status = "searching"
                        /\ uavs'[i].currentWaypointIndex = old
                  /\ idx = old
                     => IF calculateDistance(pos, bounds[old + 1]) < ArrivalThreshold
                        THEN /\ uavs'[i].currentWaypointIndex = old + 1
                             /\ uavs'[i].position = pos
                        ELSE /\ uavs'[i].currentWaypointIndex = old
                             /\ uavs'[i].status = "searching"
                             /\ uavs'[i].position # pos
                             /\ calculateDistance(uavs'[i].position, bounds[old + 1])
                                  < calculateDistance(pos, bounds[old + 1])]_vars

\* A tick has run after an append in update-route mode and the vehicle, at
\* the old end of the route, is still searching with the new waypoint ahead.
C2_Witness ==
  \E i \in DOMAIN uavs :
    LET r == AssignedArea(searchAreas, i)
    IN /\ Simulated(uavs[i])
       /\ uavs[i].status = "searching"
       /\ r # <<>>
       /\ isUpdatingRoute
       /\ drawingPath # <<>>
       /\ appendedSinceTick = 0
       /\ Len(r[1].bounds) = MaxRouteLen
       /\ drawingPath[Len(drawingPath)] = r[1].bounds[Len(r[1].bounds)]
       /\ uavs[i].currentWaypointIndex = Len(r[1].bounds) - 1
       /\ uavs[i].flightPath # <<>>

\* C3: in searching mode with currentWaypointIndex = i < waypoints.length a
\* tick either advances the index to i+1 and leaves the position alone
\* (less than 20 m from waypoints[i]) or moves toward waypoints[i] and leaves
\* the index at i; the index never decreases and grows by at most 1 per tick.
C3_OneActionPerTick ==
  [][IsTick =>
       \A i \in DOMAIN uavs :
         LET r == AssignedArea(searchAreasRef, i)
             idx == EffectiveIndex(uavs[i])
             pos == uavs[i].position
         IN /\ uavs'[i].currentWaypointIndex # Undefined
               => uavs'[i].currentWaypointIndex \in {idx, idx + 1}
            /\ (/\ Simulated(uavs[i])
                /\ uavs[i].status = "searching"
                /\ r # <<>>
                /\ idx < Len(r[1].bounds))
               => LET target == r[1].bounds[idx + 1]
                  IN IF calculateDistance(pos, target) < ArrivalThreshold
                     THEN /\ uavs'[i].currentWaypointIndex = idx + 1
                          /\ uavs'[i].position = pos
                     ELSE /\ uavs'[i].currentWaypointIndex = idx
                          /\ uavs'[i].position # pos
                          /\ calculateDistance(uavs'[i].position, target)
                               < calculateDistance(pos, target)]_vars

\* Two arrival ticks in a row: the vehicle has passed two waypoints and its
\* recorded path shows it never left its starting position.
C3_Witness ==
  \E i \in DOMAIN uavs :
    /\ uavs[i].status = "searching"
    /\ uavs[i].currentWaypointIndex = 2
    /\ uavs[i].flightPath = <<uavs[i].position, uavs[i].position>>

\* C4: a tick on a vehicle that is offline (isOnline false or mode offline)
\* or not mock returns the vehicle unchanged in every field, whatever route
\* is passed.
C4_NoOp ==
  [][IsTick =>
       \A i \in DOMAIN uavs :
         ~Simulated(uavs[i])
           => /\ uavs'[i] = uavs[i]
              /\ \A r \in ProbeRoutes(i) : updateUAVState(uavs[i], r, 1) = uavs[i]]_vars

\* The interval has fired while a real vehicle was put in searching mode on
\* a route of its own: the vehicle is exactly as the operator left it.
C4_Witness ==
  /\ ticks >= 1
  /\ 2 \in DOMAIN uavs
  /\ ~uavs[2].isMock
  /\ uavs[2].status = "searching"
  /\ AssignedArea(searchAreasRef, 2) # <<>>
  /\ uavs[2].currentWaypointIndex = Undefined
  /\ uavs[2].battery = FullBattery

\* C5: every tick of an online vehicle, in any mode and with any route,
\* yields a battery that is at most the input battery and at least 0, so a
\* battery in [0,100] stays in [0,100].
C5_BatteryBounds ==
  [][IsTick =>
       \A i \in DOMAIN uavs :
         uavs[i].isOnline
           => /\ uavs'[i].battery \in 0..uavs[i].battery
              /\ uavs'[i].battery <= FullBattery
              /\ \A m \in Modes, r \in ProbeRoutes(i) :
                   updateUAVState([uavs[i] EXCEPT !.status = m], r, 1).battery
                     \in 0..uavs[i].battery]_vars

\* A flying vehicle whose battery the drain has brought down to the floor.
C5_Witness ==
  \E i \in DOMAIN uavs :
    /\ uavs[i].isOnline
    /\ uavs[i].battery = 0
    /\ uavs[i].flightPath # <<>>

\* C6: in returning mode with a startPosition, a tick at less than 20 m from
\* it sets position to startPosition exactly, speed and altitude to 0 and
\* mode to idle; no return ends in idle anywhere else than at startPosition.
C6_ReturnSnap ==
  [][IsTick =>
       \A i \in DOMAIN uavs :
         (Simulated(uavs[i]) /\ uavs[i].status = "returning")
           => /\ (/\ uavs[i].startPosition # <<>>
                  /\ calculateDistance(uavs[i].position, uavs[i].startPosition[1])
                       < ArrivalThreshold)
                 => /\ uavs'[i].position = uavs[i].startPosition[1]
                    /\ uavs'[i].speed = 0
                    /\ uavs'[i].altitude = 0
                    /\ uavs'[i].status = "idle"
              /\ uavs'[i].status = "idle"
                 => /\ uavs[i].startPosition # <<>>
                    /\ uavs'[i].startPosition = uavs[i].startPosition
                    /\ uavs'[i].position = uavs[i].startPosition[1]]_vars

\* A vehicle back on the ground at its start after flying out and back: the
\* last recorded position of the return leg is short of the start.
C6_Witness ==
  \E i \in DOMAIN uavs :
    /\ uavs[i].status = "idle"
    /\ uavs[i].startPosition = <<uavs[i].position>>
    /\ uavs[i].altitude = 0
    /\ uavs[i].speed = 0
    /\ uavs[i].flightPath # <<>>
    /\ uavs[i].flightPath[Len(uavs[i].flightPath)] # uavs[i].position

StraightLine(path) == \A k \in 1..(Len(path) - 1) : path[k] <= path[k + 1]

\* C8: along a straight-line traversal no two consecutive coverage samples
\* are closer than footprintRadius(altitude) * 2 * 0.7 metres, where
\* footprintRadius(altitude) = max(altitude * 0.5, 25).
C8_Original ==
  \A i \in DOMAIN uavs :
    StraightLine(uavs[i].flightPath)
      => \A k \in 2..Len(uavs[i].coveragePoints) :
           LET last == uavs[i].coveragePoints[k - 1]
               this == uavs[i].coveragePoints[k]
           IN calculateDistance(last.position, this.position)
                >= Max(this.altitude * 5, MinCoverageRadius) * 140

\* The route of the scenario: one waypoint 0.0001 degree from the vehicle.
ScenarioRoute(id) ==
  <<[id |-> 1, bounds |-> <<111>>, status |-> "active", assignedUAV |-> id]>>

\* The vehicle of the scenario: mock, searching, at the origin, index
\* undefined, target speed 36 km/h.
ScenarioStart(uav) ==
  /\ Simulated(uav)
  /\ uav.status = "searching"
  /\ uav.currentWaypointIndex = Undefined
  /\ uav.position = 0
  /\ uav.targetSpeed = 36

\* C9 (as stated): tick 1 advances currentWaypointIndex to 1 without moving
\* the vehicle and the mode becomes returning on the next tick.
C9_Original ==
  \A i \in DOMAIN uavs :
    ScenarioStart(uavs[i])
      => LET tick1 == updateUAVState(uavs[i], ScenarioRoute(i), 1)
             tick2 == updateUAVState(tick1, ScenarioRoute(i), 1)
         IN /\ tick1.currentWaypointIndex = 1
            /\ tick1.position = uavs[i].position
            /\ tick1.status = "searching"
            /\ tick2.status = "returning"

\* C9 (amended): tick 1 advances currentWaypointIndex to 1 without moving the
\* vehicle and, finding the index at the length of the route, sets the mode
\* to returning in that same tick; the next tick runs the returning branch,
\* which ends in idle because the vehicle is at (or has no) start position.
C9_Amended ==
  \A i \in DOMAIN uavs :
    ScenarioStart(uavs[i])
      => \A start \in {<<>>, <<0>>} :
           LET uav == [uavs[i] EXCEPT !.startPosition = start]
               tick1 == updateUAVState(uav, ScenarioRoute(i), 1)
               tick2 == updateUAVState(tick1, ScenarioRoute(i), 1)
           IN /\ tick1.currentWaypointIndex = 1
              /\ tick1.position = uav.position
              /\ tick1.speed = 100
              /\ tick1.status = "returning"
              /\ tick2.status = "idle"
              /\ tick2.position = uav.position
              /\ tick2.currentWaypointIndex = 1

\* The vehicle of the scenario just after its mission was started.
C9_Witness ==
  \E i \in DOMAIN uavs :
    /\ ScenarioStart(uavs[i])
    /\ uavs[i].startPosition = <<0>>
    /\ uavs[i].flightPath = <<>>

\* C10: during the first mission of a vehicle an altitude sample is appended
\* only on every 5th movement tick, and altitudeHistory holds at most 8.
C10_Original ==
  \A i \in DOMAIN uavs :
    (nextAreaId = 2 /\ uavs[i].status \in {"searching", "returning"})
      => /\ Len(uavs[i].altitudeHistory) * SampleEvery
              <= Len(uavs[i].flightPath) + SampleEvery - 1
         /\ Len(uavs[i].altitudeHistory) <= AltitudeHistoryCap

\* C11: in every reachable state a vehicle's flightPath holds at most 100
\* positions, whichever writer appended last (searching tick, returning
\* tick, telemetry update).
C11_Original ==
  \A i \in DOMAIN uavs : Len(uavs[i].flightPath) <= FlightPathCap

\* C12: footprintRadius(altitude) equals max(altitude * 0.5, 25) for every
\* altitude >= 0 (here: for every altitude a vehicle reaches), so it is
\* never less than 25 m.
C12_Original ==
  \A i \in DOMAIN uavs :
    getCoverageRadius(uavs[i].altitude)
      = Max(uavs[i].altitude * 5, MinCoverageRadius)

\* No route, and a route whose bounds is empty.
EmptyRoutes(id) ==
  {<<>>, <<[id |-> 1, bounds |-> <<>>, status |-> "active", assignedUAV |-> id]>>}

\* C13: in searching mode with no route, or with a route whose bounds is
\* empty, a tick leaves the position unchanged, keeps the mode searching and
\* never increments currentWaypointIndex (an undefined index may be
\* initialised to 0), for any number of consecutive ticks.
C13_NoRoute ==
  [][IsTick =>
       \A i \in DOMAIN uavs :
         (Simulated(uavs[i]) /\ uavs[i].status = "searching")
           => LET r == AssignedArea(searchAreasRef, i)
              IN /\ (r = <<>> \/ r[1].bounds = <<>>)
                    => /\ uavs'[i].position = uavs[i].position
                       /\ uavs'[i].status = "searching"
                       /\ uavs'[i].currentWaypointIndex
                            = IF r = <<>> THEN uavs[i].currentWaypointIndex
                              ELSE EffectiveIndex(uavs[i])
                 /\ \A e \in EmptyRoutes(i), n \in 1..3 :
                      LET after == TickTimes(uavs[i], e, n)
                      IN /\ after.position = uavs[i].position
                         /\ after.status = "searching"
                         /\ after.currentWaypointIndex
                              = IF e = <<>> THEN uavs[i].currentWaypointIndex
                                ELSE EffectiveIndex(uavs[i])]_vars

\* A vehicle left searching without a route (the route list was cleared when
\* drawing started for the other vehicle) that has since been through at
\* least one tick: the run has more ticks than the vehicle spent idle (one
\* hundredth of a percent each) and flying (one path entry each).
C13_Witness ==
  \E i \in DOMAIN uavs :
    /\ Simulated(uavs[i])
    /\ uavs[i].status = "searching"
    /\ AssignedArea(searchAreasRef, i) = <<>>
    /\ uavs[i].currentWaypointIndex >= 1
    /\ uavs[i].battery > FullBattery - 100
    /\ ticks > Len(uavs[i].flightPath)
                 + (FullBattery - uavs[i].battery
                      - SearchDrain * Len(uavs[i].flightPath)) \div IdleDrain

\* C14: in returning mode with no startPosition a tick sets the mode to
\* idle and the speed to 0 and leaves the position (and every other field)
\* unchanged.
C14_NoStartPosition ==
  [][IsTick =>
       \A i \in DOMAIN uavs :
         (/\ Simulated(uavs[i])
          /\ uavs[i].status = "returning"
          /\ uavs[i].startPosition = <<>>)
           => uavs'[i] = [uavs[i] EXCEPT !.status = "idle", !.speed = 0]]_vars

\* After the first firing: an idle vehicle without a start position whose
\* battery the firing has not drained, which only the fallback produces.
C14_Witness ==
  \E i \in DOMAIN uavs :
    /\ ticks = 1
    /\ Simulated(uavs[i])
    /\ uavs[i].status = "idle"
    /\ uavs[i].startPosition = <<>>
    /\ uavs[i].speed = 0
    /\ uavs[i].position = 300
    /\ uavs[i].battery = FullBattery

\* The per-second drain of a mode, in hundredths of a percent.
DrainRate(mode) ==
  IF mode = "searching" THEN SearchDrain
  ELSE IF mode = "returning" THEN ReturnDrain
  ELSE IdleDrain

\* C15: on every tick of an online mock vehicle in idle, searching or
\* returning mode whose battery is above 0, the battery decreases by the
\* mode's rate times the tick length (floored at 0).
C15_Original ==
  [][IsTick =>
       \A i \in DOMAIN uavs :
         (/\ Simulated(uavs[i])
          /\ uavs[i].status \in {"idle", "searching", "returning"}
          /\ uavs[i].battery > 0)
           => /\ uavs'[i].battery < uavs[i].battery
              /\ uavs'[i].battery
                   = Max(0, uavs[i].battery - DrainRate(uavs[i].status))]_vars

\* C16: a tick on an online mock vehicle in idle mode sets the speed to 0,
\* leaves position, mode and currentWaypointIndex (and every other field)
\* unchanged and sets the battery to max(0, battery - 0.01 * dt); with
\* battery 100 and dt = 10 s the result is 99.9.
C16_IdleTick ==
  [][IsTick =>
       \A i \in DOMAIN uavs :
         (Simulated(uavs[i]) /\ uavs[i].status = "idle")
           => /\ uavs'[i] = [uavs[i] EXCEPT
                               !.speed = 0,
                               !.battery = Max(0, uavs[i].battery - IdleDrain)]
              /\ \A r \in ProbeRoutes(i) :
                   updateUAVState([uavs[i] EXCEPT !.battery = FullBattery], r, 10)
                     = [uavs[i] EXCEPT !.speed = 0, !.battery = 9990]]_vars

\* A vehicle that has stayed idle through every tick of the run: its battery
\* is down by exactly one hundredth of a percent per tick.
C16_Witness ==
  \E i \in DOMAIN uavs :
    /\ ticks = MaxTicks
    /\ Simulated(uavs[i])
    /\ uavs[i].status = "idle"
    /\ uavs[i].startPosition = <<>>
    /\ uavs[i].battery = FullBattery - MaxTicks * IdleDrain

(***************************************************************************)
(* The arrays one call of updateUAVState can reach through its arguments,  *)
(* and the array each in-place write of the call lands in.                 *)
(***************************************************************************)
\* uavSimulation.js 138: the arrays reachable from the parameters uav and searchArea.
ArgumentArrays ==
  {"uav.flightPath", "uav.coveragePoints", "uav.altitudeHistory", "searchArea.bounds"}

\* The contents of the arguments' arrays when the call starts.
HeapBefore(uav, searchArea) ==
  [a \in ArgumentArrays |->
     IF a = "uav.flightPath" THEN uav.flightPath
     ELSE IF a = "uav.coveragePoints" THEN uav.coveragePoints
     ELSE IF a = "uav.altitudeHistory" THEN uav.altitudeHistory
     ELSE IF searchArea = <<>> THEN <<>> ELSE searchArea[1].bounds]

\* Variant: the searching branch keeps the array of the shallow copy.
CoverageArray_Shared(uav, searchArea) == "uav.coveragePoints"

\* Lines 139, 191-195: the array updatedUAV.coveragePoints names.  The spread
\* of line 139 copies the reference; the searching branch replaces it by a
\* new array ([] or [...uav.coveragePoints]) before anything is pushed.
CoverageArray(uav, searchArea) ==
  IF Simulated(uav) /\ uav.status = "searching" /\ searchArea # <<>>
  THEN "updatedUAV.coveragePoints"
  ELSE "uav.coveragePoints"

\* Lines 138-349 on the heap.  The call writes into an existing array only at
\* line 267 (coveragePoints.push); flightPath and altitudeHistory are rebuilt
\* with a spread (lines 221-224, 234-241, 318-332) and every other write
\* assigns a property of the new object updatedUAV.
HeapAfter(uav, searchArea, deltaTime) ==
  LET result == updateUAVState(uav, searchArea, deltaTime)
      before == HeapBefore(uav, searchArea)
      pushed == CoverageArray(uav, searchArea)
  IN [a \in ArgumentArrays \cup {"updatedUAV.coveragePoints"} |->
        IF a = pushed THEN result.coveragePoints
        ELSE IF a = "updatedUAV.coveragePoints" THEN uav.coveragePoints
        ELSE before[a]]

C18_ReturnAfterCancel ==
  [][\A i \in DOMAIN uavs :
       /\ (~IsTick /\ uavs[i].status = "searching" /\ uavs'[i].status = "returning")
            => uavs'[i] = [uavs[i] EXCEPT !.status = "returning", !.isSearching = FALSE]
       /\ (IsTick /\ Simulated(uavs[i]) /\ uavs[i].status = "returning"
             /\ uavs[i].startPosition # <<>>)
            => LET start == uavs[i].startPosition[1]
                   position == uavs[i].position
               IN /\ uavs'[i].currentWaypointIndex = uavs[i].currentWaypointIndex
                  /\ uavs'[i].startPosition = uavs[i].startPosition
                  /\ IF calculateDistance(position, start) < ArrivalThreshold
                     THEN uavs'[i].status = "idle" /\ uavs'[i].position = start
                     ELSE /\ uavs'[i].status = "returning"
                          /\ (uavs'[i].position - position) * (start - position) > 0
                          /\ Abs(uavs'[i].position - start) < Abs(position - start)]_vars

\* A cancelled vehicle on its way home: it had advanced along its route, is
\* in returning mode heading for startPosition, and its last flight-path
\* step brought it nearer to startPosition.
C18_Witness ==
  \E i \in DOMAIN uavs :
    LET uav == uavs[i]
        n == Len(uav.flightPath)
    IN /\ Simulated(uav)
       /\ uav.status = "returning"
       /\ ~uav.isSearching
       /\ uav.startPosition # <<>>
       /\ uav.currentWaypointIndex # Undefined
       /\ uav.currentWaypointIndex >= 1
       /\ n >= 2
       /\ uav.flightPath[n] = uav.position
       /\ uav.direction = calculateBearing(uav.position, uav.startPosition[1])
       /\ uav.speed = ReturnSpeedMs(uav)
       /\ Abs(uav.flightPath[n] - uav.startPosition[1])
            < Abs(uav.flightPath[n - 1] - uav.startPosition[1])

\* The mode changes one tick may make: the cycle's own steps and staying put.
TickModeSteps ==
  {<<"idle", "idle">>, <<"searching", "searching">>, <<"searching", "returning">>,
   <<"returning", "returning">>, <<"returning", "idle">>, <<"offline", "offline">>}

\* C19: a single tick changes a vehicle's mode only along the cycle: idle
\* stays idle, searching stays searching or becomes returning, returning
\* stays returning or becomes idle, offline stays offline; a vehicle that is
\* not online or not mock keeps its mode and its online flag, and no tick
\* changes the online flag.
C19_ModeCycle ==
  [][IsTick =>
       \A i \in DOMAIN uavs :
         /\ <<uavs[i].status, uavs'[i].status>> \in TickModeSteps
         /\ uavs'[i].isOnline = uavs[i].isOnline
         /\ ~Simulated(uavs[i]) => uavs'[i].status = uavs[i].status]_vars

\* A vehicle handed to the tick in searching mode that ticks alone have
\* taken through returning to idle: it has flown, stands on its
\* startPosition at altitude 0, and still carries the searching flag it
\* was given.
C19_Witness ==
  \E i \in DOMAIN uavs :
    /\ ticks = InputTicks
    /\ Simulated(uavs[i])
    /\ uavs[i].status = "idle"
    /\ uavs[i].isSearching
    /\ uavs[i].startPosition = <<uavs[i].position>>
    /\ uavs[i].altitude = 0
    /\ Len(uavs[i].flightPath) >= 1

\* The altitude the ramp prescribes for current altitude a, target t and tick
\* length deltaTime: the target when within one tick's climb of it, else one
\* tick's climb toward it.
RampedAltitude(a, t, deltaTime) ==
  IF Abs(t - a) < ClimbRate * deltaTime THEN t
  ELSE IF t > a THEN a + ClimbRate * deltaTime
  ELSE a - ClimbRate * deltaTime

\* C20: on every tick of a searching mock vehicle with a route whose
\* currentWaypointIndex is already defined (a tick after the first one), the
\* new altitude is the ramped altitude for the current altitude and the
\* target altitude, for every current altitude including 0; so the altitude
\* changes by at most 2 m per one-second tick.
C20_Original ==
  [][IsTick =>
       \A i \in DOMAIN uavs :
         (/\ Simulated(uavs[i])
          /\ uavs[i].status = "searching"
          /\ AssignedArea(searchAreasRef, i) # <<>>
          /\ uavs[i].currentWaypointIndex # Undefined)
           => /\ uavs'[i].altitude
                   = RampedAltitude(uavs[i].altitude, TargetAltitudeOf(uavs[i]), 1)
              /\ Abs(uavs'[i].altitude - uavs[i].altitude) <= ClimbRate]_vars

\* The index a first searching tick leaves behind: 0 after the
\* initialisation, or 1 when the first waypoint is already within the
\* arrival threshold and the same tick advances past it.
FirstTickIndex(uav, waypoints) ==
  IF Len(waypoints) > 0
     /\ calculateDistance(uav.position, waypoints[1]) < ArrivalThreshold
  THEN 1
  ELSE 0

\* C21 as stated: the first searching tick of a mission (index undefined,
\* route present) leaves currentWaypointIndex at 0, speed at targetSpeed/3.6
\* and altitude at targetAltitude, and no tick makes a defined index undefined.
C21_Original ==
  [][IsTick =>
       \A i \in DOMAIN uavs :
         /\ (/\ Simulated(uavs[i])
             /\ uavs[i].status = "searching"
             /\ AssignedArea(searchAreasRef, i) # <<>>
             /\ uavs[i].currentWaypointIndex = Undefined)
              => /\ uavs'[i].currentWaypointIndex = 0
                 /\ uavs'[i].speed = TargetSpeedMs(uavs[i])
                 /\ uavs'[i].altitude = TargetAltitudeOf(uavs[i])
         /\ uavs[i].currentWaypointIndex # Undefined
              => uavs'[i].currentWaypointIndex # Undefined]_vars

\* C21 amended: the first searching tick of a mission initialises
\* currentWaypointIndex to 0 before the waypoint step, so the tick leaves it
\* at 0, or at 1 when the first waypoint is within 20 m of the vehicle; it
\* sets speed to targetSpeed/3.6 and altitude to targetAltitude with no
\* ramp; and no tick makes a defined index undefined.
C21_Amended ==
  [][IsTick =>
       \A i \in DOMAIN uavs :
         /\ (/\ Simulated(uavs[i])
             /\ uavs[i].status = "searching"
             /\ AssignedArea(searchAreasRef, i) # <<>>
             /\ uavs[i].currentWaypointIndex = Undefined)
              => /\ uavs'[i].currentWaypointIndex
                      = FirstTickIndex(uavs[i], AssignedArea(searchAreasRef, i)[1].bounds)
                 /\ uavs'[i].speed = TargetSpeedMs(uavs[i])
                 /\ uavs'[i].altitude = TargetAltitudeOf(uavs[i])
         /\ uavs[i].currentWaypointIndex # Undefined
              => uavs'[i].currentWaypointIndex # Undefined]_vars

\* A vehicle right after the first tick of its mission: the index was
\* initialised and advanced past a first waypoint within 20 m, the flight
\* path holds the one unmoved position, and speed and altitude are at their
\* targets.
C21_Witness ==
  \E i \in DOMAIN uavs :
    /\ Simulated(uavs[i])
    /\ uavs[i].status = "searching"
    /\ uavs[i].currentWaypointIndex = 1
    /\ uavs[i].flightPath = <<uavs[i].position>>
    /\ uavs[i].startPosition = <<uavs[i].position>>
    /\ uavs[i].speed = TargetSpeedMs(uavs[i])
    /\ uavs[i].altitude = TargetAltitudeOf(uavs[i])
    /\ uavs[i].altitude > ClimbRate

\* C22: a tick whose resulting currentWaypointIndex is 0 (or still
\* undefined) appends no coverage sample, a tick that appends one leaves the
\* index at 1 or more, and in every state a vehicle that holds a coverage
\* sample has an index of at least 1: nothing is recorded on the transit leg
\* to the first waypoint.
C22_NoTransitCoverage ==
  /\ [][IsTick =>
          \A i \in DOMAIN uavs :
            /\ uavs'[i].currentWaypointIndex \in {Undefined, 0}
                 => uavs'[i].coveragePoints = uavs[i].coveragePoints
            /\ uavs'[i].coveragePoints # uavs[i].coveragePoints
                 => /\ uavs'[i].currentWaypointIndex >= 1
                    /\ uavs'[i].coveragePoints
                         = Append(uavs[i].coveragePoints,
                                  [position |-> uavs'[i].position,
                                   altitude |-> uavs'[i].altitude])]_vars
  /\ [](\A i \in DOMAIN uavs :
          uavs[i].coveragePoints # <<>> => uavs[i].currentWaypointIndex >= 1)

\* A vehicle on the tick that advanced its index to 1 after a transit leg
\* of several ticks: it has left its start position, the flight path holds
\* the transit, and the one coverage sample is the position of the advance.
C22_Witness ==
  \E i \in DOMAIN uavs :
    /\ Simulated(uavs[i])
    /\ uavs[i].status = "searching"
    /\ uavs[i].currentWaypointIndex = 1
    /\ Len(uavs[i].flightPath) >= 3
    /\ uavs[i].startPosition # <<>>
    /\ uavs[i].startPosition # <<uavs[i].position>>
    /\ uavs[i].coveragePoints
         = <<[position |-> uavs[i].position, altitude |-> uavs[i].altitude]>>

\* C23: every tick of a searching mock vehicle with a route leaves the
\* speed at targetSpeed/3.6 for the targetSpeed the vehicle holds when the
\* tick runs, whatever the speed was before (so a change the operator made
\* since the previous tick is in force after this one); no tick changes
\* targetSpeed or targetAltitude; and a step that changes one of the two
\* targets changes nothing else of the vehicle.
C23_SetpointsFollowed ==
  [][\A i \in DOMAIN uavs :
       /\ IsTick =>
            /\ uavs'[i].targetSpeed = uavs[i].targetSpeed
            /\ uavs'[i].targetAltitude = uavs[i].targetAltitude
            /\ (/\ Simulated(uavs[i])
                /\ uavs[i].status = "searching"
                /\ AssignedArea(searchAreasRef, i) # <<>>)
                 => uavs'[i].speed = (uavs[i].targetSpeed * 100) \div 36
       /\ (uavs'[i].targetSpeed # uavs[i].targetSpeed
             \/ uavs'[i].targetAltitude # uavs[i].targetAltitude)
            => /\ ~IsTick
               /\ uavs'[i] = [uavs[i] EXCEPT
                                !.targetSpeed = uavs'[i].targetSpeed,
                                !.targetAltitude = uavs'[i].targetAltitude]]_vars

\* A searching vehicle whose operator changed the target speed between two
\* ticks: the last flight-path step has the length of the new speed, the
\* step before it had another length.
C23_Witness ==
  \E i \in DOMAIN uavs :
    LET uav == uavs[i]
        n == Len(uav.flightPath)
    IN /\ Simulated(uav)
       /\ uav.status = "searching"
       /\ setpointChanges >= 1
       /\ n >= 3
       /\ uav.speed = (uav.targetSpeed * 100) \div 36
       /\ Abs(uav.flightPath[n] - uav.flightPath[n - 1]) = uav.speed
       /\ Abs(uav.flightPath[n - 1] - uav.flightPath[n - 2]) \notin {0, uav.speed}

\* C24: a tick of a returning mock vehicle that is 20 m or more from its
\* startPosition moves it one step of 1.5 x targetSpeed/3.6 along the
\* bearing to startPosition, sets the speed to that value, keeps the mode
\* returning, leaves currentWaypointIndex and coveragePoints unchanged and
\* lowers the battery by the returning rate, 0.08 per second (floored at 0),
\* which is below the searching rate of 0.1.
C24_ReturnLeg ==
  [][IsTick =>
       \A i \in DOMAIN uavs :
         (/\ Simulated(uavs[i])
          /\ uavs[i].status = "returning"
          /\ uavs[i].startPosition # <<>>
          /\ calculateDistance(uavs[i].position, uavs[i].startPosition[1])
               >= ArrivalThreshold)
           => LET start == uavs[i].startPosition[1]
                  step == (uavs[i].targetSpeed * 150) \div 36
              IN /\ uavs'[i].speed = step
                 /\ uavs'[i].position
                      = IF start >= uavs[i].position
                        THEN uavs[i].position + step
                        ELSE uavs[i].position - step
                 /\ uavs'[i].status = "returning"
                 /\ uavs'[i].currentWaypointIndex = uavs[i].currentWaypointIndex
                 /\ uavs'[i].coveragePoints = uavs[i].coveragePoints
                 /\ uavs'[i].battery = Max(0, uavs[i].battery - ReturnDrain)
                 /\ ReturnDrain < SearchDrain]_vars

\* A vehicle after a tick of its return leg: the step before was 20 m or
\* more from startPosition, the last step has the length of the return
\* speed, and the coverage it recorded on the route is still there.
C24_Witness ==
  \E i \in DOMAIN uavs :
    LET uav == uavs[i]
        n == Len(uav.flightPath)
    IN /\ Simulated(uav)
       /\ uav.status = "returning"
       /\ uav.startPosition # <<>>
       /\ n >= 2
       /\ uav.flightPath[n] = uav.position
       /\ calculateDistance(uav.flightPath[n - 1], uav.startPosition[1])
            >= ArrivalThreshold
       /\ uav.speed = (uav.targetSpeed * 150) \div 36
       /\ Abs(uav.flightPath[n] - uav.flightPath[n - 1]) = uav.speed
       /\ uav.coveragePoints # <<>>
       /\ uav.battery < FullBattery

\* The operator has just appended a waypoint in update-route mode to the
\* active route of vehicle i, which now has n waypoints.
AppendedInUpdate(i, n) ==
  /\ isDrawing /\ isUpdatingRoute /\ selectedUAV # <<>> /\ Selected.id = i
  /\ appendedSinceTick >= 1
  /\ LET area == AssignedArea(searchAreas, i)
     IN area # <<>> /\ area[1].status = "active" /\ Len(area[1].bounds) = n

\* C25: with the interval running and no cancel, every waypoint appended to
\* an active route in update-route mode is eventually targeted and passed by
\* the assigned vehicle: whenever an append has made the route of vehicle i
\* n waypoints long, the vehicle's currentWaypointIndex eventually reaches n.
C25_Original ==
  \A i \in {1}, n \in 1..MaxRouteLen :
    AppendedInUpdate(i, n) ~> (uavs[i].currentWaypointIndex >= n)

\* A step of handleStartDrawing: drawing mode opens outside update-route mode.
IsStartDrawing == ~isDrawing /\ isDrawing' /\ ~isUpdatingRoute'

\* C26: starting to draw a new route for the selected vehicle affects only
\* that vehicle: every other vehicle keeps its assigned active route, its
\* mode and its currentWaypointIndex.
C26_Original ==
  [][IsStartDrawing =>
       \A j \in DOMAIN uavs :
         j # Selected.id
           => /\ AssignedArea(searchAreas', j) = AssignedArea(searchAreas, j)
              /\ uavs'[j].status = uavs[j].status
              /\ uavs'[j].currentWaypointIndex = uavs[j].currentWaypointIndex]_vars

\* The flight of vehicle i is over: idle on its startPosition, at rest, with
\* every waypoint of its route passed.
FlightOver(i) ==
  /\ uavs[i].status = "idle"
  /\ uavs[i].startPosition = <<uavs[i].position>>
  /\ uavs[i].speed = 0
  /\ AssignedArea(searchAreas, i) # <<>>
  /\ uavs[i].currentWaypointIndex = Len(AssignedArea(searchAreas, i)[1].bounds)

\* C27: with a fixed non-empty route, no operator action and a per-tick
\* travel below 40 m outbound and on the return, a mock vehicle that starts
\* searching passes the waypoints one at a time in order, each within 20 m
\* of the vehicle when it is passed, never moves the index back, and
\* eventually is idle on its startPosition with every waypoint passed, for
\* good.
C27_FlightTerminates ==
  /\ [][\A i \in DOMAIN uavs :
          LET index == EffectiveIndex(uavs[i])
              waypoints == AssignedArea(searchAreas, i)[1].bounds
          IN /\ uavs'[i].currentWaypointIndex \in {index, index + 1}
             /\ uavs'[i].currentWaypointIndex = index + 1
                  => /\ uavs[i].status = "searching"
                     /\ calculateDistance(uavs[i].position, waypoints[index + 1])
                          < ArrivalThreshold
             /\ (TargetSpeedMs(uavs[i]) * 111195) \div 1110 < 2 * ArrivalThreshold
             /\ (ReturnSpeedMs(uavs[i]) * 111195) \div 1110 < 2 * ArrivalThreshold]_vars
  /\ <>[](\A i \in DOMAIN uavs : FlightOver(i))

\* A finished flight over a two-waypoint route that took the vehicle away
\* from its start: the flight path holds the legs and coverage was recorded.
C27_Witness ==
  \E i \in DOMAIN uavs :
    /\ FlightOver(i)
    /\ uavs[i].currentWaypointIndex = 2
    /\ Len(uavs[i].flightPath) >= 6
    /\ \E k \in 1..Len(uavs[i].flightPath) :
         calculateDistance(uavs[i].flightPath[k], uavs[i].position) >= 2 * ArrivalThreshold
    /\ uavs[i].coveragePoints # <<>>
    /\ uavs[i].battery = 0

IsStartUpdateRoute == ~isDrawing /\ isDrawing' /\ isUpdatingRoute'

\* C29: when update-route is started for a selected vehicle that is
\* returning, the vehicle's mode becomes searching and its
\* currentWaypointIndex, startPosition, position, battery (and every other
\* field) and the routes' bounds are unchanged; and no tick ever changes a
\* vehicle's startPosition.
C29_Original ==
  [][/\ IsStartUpdateRoute =>
          /\ searchAreas' = searchAreas
          /\ uavs[Selected.id].status = "returning"
               => uavs'[Selected.id]
                    = [uavs[Selected.id] EXCEPT !.status = "searching"]
     /\ IsTick =>
          \A i \in DOMAIN uavs : uavs'[i].startPosition = uavs[i].startPosition]_vars

\* C30: during a replay of a record with at least one waypoint the cursor
\* replayWaypoint stays within [0, waypoints.length - 1] whatever the timer
\* and the next, previous and seek controls do, and a firing of the timer
\* with the cursor on the last waypoint stops the playback.
C30_Original ==
  /\ [](replay.selectedHistoryRecord # <<>> /\ totalWaypoints >= 1
          => replay.replayWaypoint \in 0..(totalWaypoints - 1))
  /\ [][replay.isReplaying /\ replay.selectedHistoryRecord # <<>>
          /\ replay.replayWaypoint = totalWaypoints - 1
          /\ replay' # replay
          /\ replay' = [replay EXCEPT !.isReplaying = replay'.isReplaying]
        => ~replay'.isReplaying]_vars
====
